---- MODULE Spec2Model ----
(***************************************************************************)
(* A model of MyVec<T> (src/src/vec.rs): a raw allocation, len and         *)
(* capacity, the element lifecycle (push, pop, insert, remove, clear,      *)
(* shrink_to_fit, indexed access, drop) and the consuming iterator         *)
(* MyVecIntoIter.  Elements are owned resources with an identity: each     *)
(* value given to the buffer is a fresh id, so a leak, a double destroy or *)
(* a reordering shows in the state.  Offsets are 0-based as in the source; *)
(* the allocation is a sequence, so offset k is slots[k + 1].              *)
(* MyRefCell<T> (src/src/refcell.rs) is its borrow counter and the guards  *)
(* handed out; Rc0<T> and Weak0<T> (src/src/rc.rs) are the two counters of *)
(* the shared allocation and the handles that are live.                    *)
(***************************************************************************)
EXTENDS Integers, Sequences, FiniteSets, TLC

\* Bounds of the model.
MaxElems == 4
MaxInitCap == 3

\* the largest number of calls made on a clone
MaxCloneCalls == 2

\* the largest number of elements in a my_vec! invocation
MaxMacroLen == 3

\* the largest number of Ref guards held at once
MaxGuards == 3

\* the largest number of Rc0 handles, and of Weak0 handles, held at once
MaxHandles == 3

\* The bits of a slot that was never written (alloc returns uninitialized memory).
Uninit == 0

Ids == 1..MaxElems

\* T::clone gives a new element with an equal value: the clone of e is e + MaxElems.
elem_clone(e) == IF e \in Ids THEN e + MaxElems ELSE e

\* the value of an element, which it shares with its clone
Value(e) == IF e > MaxElems THEN e - MaxElems ELSE e

AllIds == 1..(2 * MaxElems)

VARIABLES
    phase,      \* "vec": a MyVec is live; "iter": it was turned into a MyVecIntoIter; "dropped"
    ptr,        \* MyVec.ptr / MyVecIntoIter.ptr: "dangling" or "heap"
    len,        \* MyVec.len / MyVecIntoIter.len
    capacity,   \* MyVec.capacity / MyVecIntoIter.capacity
    index,      \* MyVecIntoIter.index
    slots,      \* the allocation ptr points to, one entry per allocated slot
    live,       \* TRUE while that allocation has not been released
    ub,         \* TRUE once an access outside the rules of std::alloc / std::ptr happened
    destroyed,  \* per element: how often its destructor ran (drop_in_place, assignment)
    handed,     \* per element: how often it was moved out to the caller (ptr::read)
    nextId,     \* the next fresh element
    ctor,       \* how the buffer was constructed: new(), or with_capacity(n)
    stored,     \* the elements ever written into the buffer
    onlyPush,   \* TRUE while every call so far was a push
    last,       \* the last call: its arguments, its result and the buffer before it
    lifo,       \* the current run of pushes followed by pops
    undo,       \* an insert(i, v) and the remove(i) that directly follows it
    nonePops,   \* how many pops in a row have returned None (counted to 2)
    iterSrc,    \* the element sequence at into_iter()
    taken,      \* what next() has returned so far, in order
    other,      \* a second buffer: the clone, or the buffer my_vec! is compared with
    cloned,     \* other holds the result of clone()
    calls,      \* the number of calls made on the clone
    macro,      \* the my_vec! invocation being expanded, if any
    maxLen,     \* the largest len the buffer has had, where it is followed
    cell,       \* a MyRefCell<T>, with the guards borrowed from it
    rc          \* an RcInner<T> allocation, with the handles that point to it

vars == <<phase, ptr, len, capacity, index, slots, live, ub, destroyed, handed,
          nextId, ctor, stored, onlyPush, last, lifo, undo, nonePops,
          iterSrc, taken, other, cloned, calls, macro, maxLen, cell, rc>>

\* the variables of the second buffer and of my_vec!
aux == <<other, cloned, calls, macro, maxLen, cell, rc>>

Min(a, b) == IF a < b THEN a ELSE b

Bump(f, id) == [f EXCEPT ![id] = Min(@ + 1, 2)]

\* Option<T>: None is <<>>, Some(x) is <<x>>.
None == <<>>
Some(x) == <<x>>

(***************************************************************************)
(* std::alloc and std::ptr, on a machine record                            *)
(*   s = [ptr, len, capacity, index, slots, live, ub, destroyed, handed].  *)
(***************************************************************************)

InBlock(s, off) == s.ptr = "heap" /\ s.live /\ off >= 0 /\ off < Len(s.slots)

\* alloc(Layout::array::<T>(n))
alloc(s, n) ==
    [s EXCEPT !.ptr = "heap", !.live = TRUE, !.slots = [k \in 1..n |-> Uninit],
              !.ub = s.ub \/ s.live \/ n = 0]

\* realloc(ptr, Layout::array::<T>(old), size of n slots): keeps the first min(old, n) slots
realloc(s, old, n) ==
    [s EXCEPT !.slots = [k \in 1..n |-> IF k <= Len(s.slots) THEN s.slots[k] ELSE Uninit],
              !.ub = s.ub \/ ~s.live \/ s.ptr # "heap" \/ old # Len(s.slots) \/ n = 0]

\* dealloc(ptr, Layout::array::<T>(n)): the pointer is left as it was
dealloc(s, n) ==
    [s EXCEPT !.live = FALSE, !.slots = <<>>,
              !.ub = s.ub \/ ~s.live \/ s.ptr # "heap" \/ n # Len(s.slots)]

\* the bits at ptr.add(off)
ptr_read(s, off) == IF InBlock(s, off) THEN s.slots[off + 1] ELSE Uninit

\* ptr::write(ptr.add(off), value)
ptr_write(s, off, value) ==
    IF InBlock(s, off)
    THEN [s EXCEPT !.slots[off + 1] = value]
    ELSE [s EXCEPT !.ub = TRUE]

\* Mutant of ptr_copy: a front-to-back element loop, which smears the first element
\* over the destination when the ranges overlap with dst > src.
ptr_copy_forward(s, src, dst, count) ==
    IF count <= 0
    THEN [s EXCEPT !.ub = s.ub \/ count < 0]
    ELSE IF InBlock(s, src) /\ InBlock(s, src + count - 1)
            /\ InBlock(s, dst) /\ InBlock(s, dst + count - 1)
    THEN [s EXCEPT !.slots = [k \in 1..Len(s.slots) |->
                                IF k - 1 >= dst /\ k - 1 < dst + count
                                THEN IF dst > src /\ dst < src + count
                                     THEN s.slots[src + 1 + ((k - 1 - src) % (dst - src))]
                                     ELSE s.slots[k - dst + src]
                                ELSE s.slots[k]]]
    ELSE [s EXCEPT !.ub = TRUE]

\* ptr::copy(ptr.add(src), ptr.add(dst), count): memmove of count slots
ptr_copy(s, src, dst, count) ==
    IF count <= 0
    THEN [s EXCEPT !.ub = s.ub \/ count < 0]
    ELSE IF InBlock(s, src) /\ InBlock(s, src + count - 1)
            /\ InBlock(s, dst) /\ InBlock(s, dst + count - 1)
    THEN [s EXCEPT !.slots = [k \in 1..Len(s.slots) |->
                                IF k - 1 >= dst /\ k - 1 < dst + count
                                THEN s.slots[k - dst + src]
                                ELSE s.slots[k]]]
    ELSE [s EXCEPT !.ub = TRUE]

\* ptr::drop_in_place(ptr.add(off)): runs the destructor of the element there
drop_in_place(s, off) ==
    IF InBlock(s, off) /\ s.slots[off + 1] # Uninit
    THEN [s EXCEPT !.destroyed = Bump(s.destroyed, s.slots[off + 1])]
    ELSE [s EXCEPT !.ub = TRUE]

\* ptr::drop_in_place(slice_from_raw_parts_mut(ptr.add(from), n)): front to back
RECURSIVE drop_slice(_, _, _)
drop_slice(s, from, n) ==
    IF n <= 0 THEN s ELSE drop_slice(drop_in_place(s, from), from + 1, n - 1)

\* the value leaves the buffer: the caller owns it now
move_out(s, off) ==
    IF InBlock(s, off) /\ s.slots[off + 1] # Uninit
    THEN [s EXCEPT !.handed = Bump(s.handed, s.slots[off + 1])]
    ELSE [s EXCEPT !.ub = TRUE]

(***************************************************************************)
(* MyVec<T>.  A method is an operator from the machine record to           *)
(*   [s |-> the record after the call, result |-> what it returns,         *)
(*    panicked |-> whether it panicked].                                   *)
(***************************************************************************)

Ret(s, result, panicked) == [s |-> s, result |-> result, panicked |-> panicked]

\* MyVec::new(): no allocation, a dangling pointer
new ==
    [ptr |-> "dangling", len |-> 0, capacity |-> 0, index |-> 0,
     slots |-> <<>>, live |-> FALSE, ub |-> FALSE,
     destroyed |-> [e \in AllIds |-> 0], handed |-> [e \in AllIds |-> 0]]

\* Mutant of with_capacity: allocates one slot more than asked for.
with_capacity_extra(n) ==
    IF n = 0 THEN new
    ELSE [alloc(new, n + 1) EXCEPT !.len = 0, !.capacity = n + 1]

with_capacity(n) ==
    IF n = 0 THEN new
    ELSE [alloc(new, n) EXCEPT !.len = 0, !.capacity = n]

\* Mutant of grow: one more slot instead of twice as many.
grow_plus_one(s) ==
    LET new_capacity == s.capacity + 1
        moved == IF s.capacity = 0
                 THEN alloc(s, new_capacity)
                 ELSE realloc(s, s.capacity, new_capacity)
    IN  [moved EXCEPT !.ptr = "heap", !.capacity = new_capacity]

grow(s) ==
    LET new_capacity == IF s.capacity = 0 THEN 1 ELSE s.capacity * 2
        moved == IF s.capacity = 0
                 THEN alloc(s, new_capacity)
                 ELSE realloc(s, s.capacity, new_capacity)
    IN  [moved EXCEPT !.ptr = "heap", !.capacity = new_capacity]

\* Mutant of grow_if_needed: the test is off by one, a full buffer does not grow.
grow_if_needed_late(s) == IF s.len > s.capacity THEN grow(s) ELSE s

\* Mutant of grow_if_needed: grows one element early, while a free slot is left.
grow_if_needed_early(s) == IF s.len + 1 >= s.capacity THEN grow(s) ELSE s

grow_if_needed(s) == IF s.len = s.capacity THEN grow(s) ELSE s

push(s, value) ==
    LET g == grow_if_needed(s)
        w == ptr_write(g, g.len, value)
    IN  Ret([w EXCEPT !.len = w.len + 1], None, FALSE)

\* Mutant of pop: no test for the empty buffer.
pop_unchecked(s) ==
    LET d == [s EXCEPT !.len = s.len - 1]
    IN  Ret(move_out(d, d.len), Some(ptr_read(d, d.len)), FALSE)

\* Mutant of pop: reads the slot before len is decremented, one past the last element.
pop_stale(s) ==
    IF s.len = 0 THEN Ret(s, None, FALSE)
    ELSE LET d == [s EXCEPT !.len = s.len - 1]
         IN  Ret(move_out(d, s.len), Some(ptr_read(d, s.len)), FALSE)

\* Mutant of pop: taking the last element out releases the allocation.
pop_release(s) ==
    IF s.len = 0 THEN Ret(s, None, FALSE)
    ELSE LET d == [s EXCEPT !.len = s.len - 1]
             m == move_out(d, d.len)
         IN  IF d.len > 0 THEN Ret(m, Some(ptr_read(d, d.len)), FALSE)
             ELSE Ret([dealloc(m, m.capacity) EXCEPT !.ptr = "dangling", !.capacity = 0],
                      Some(ptr_read(d, d.len)), FALSE)

pop(s) ==
    IF s.len = 0 THEN Ret(s, None, FALSE)
    ELSE LET d == [s EXCEPT !.len = s.len - 1]
         IN  Ret(move_out(d, d.len), Some(ptr_read(d, d.len)), FALSE)

\* Mutant of insert: the bounds test of remove, so appending at i = len panics.
insert_strict(s, i, value) ==
    IF i >= s.len THEN Ret(s, None, TRUE)
    ELSE LET g == grow_if_needed(s)
             c == ptr_copy(g, i, i + 1, g.len - i)
             w == ptr_write(c, i, value)
         IN  Ret([w EXCEPT !.len = w.len + 1], None, FALSE)

\* Mutant of insert: grow_if_needed() runs before the bounds test.
insert_grow_first(s, i, value) ==
    LET g == grow_if_needed(s)
    IN  IF i > s.len THEN Ret(g, None, TRUE)
        ELSE LET c == ptr_copy(g, i, i + 1, g.len - i)
                 w == ptr_write(c, i, value)
             IN  Ret([w EXCEPT !.len = w.len + 1], None, FALSE)

insert(s, i, value) ==
    IF i > s.len THEN Ret(s, None, TRUE)
    ELSE LET g == grow_if_needed(s)
             c == ptr_copy(g, i, i + 1, g.len - i)
             w == ptr_write(c, i, value)
         IN  Ret([w EXCEPT !.len = w.len + 1], None, FALSE)

\* Mutant of remove: fills the hole with the last element (a swap_remove).
remove_swap(s, i) ==
    IF i >= s.len THEN Ret(s, None, TRUE)
    ELSE LET value == ptr_read(s, i)
             r == move_out(s, i)
             c == ptr_copy(r, r.len - 1, i, IF i = r.len - 1 THEN 0 ELSE 1)
         IN  Ret([c EXCEPT !.len = c.len - 1], Some(value), FALSE)

\* Mutant of remove: returns the element after the shift, the one that took the place.
remove_late_read(s, i) ==
    IF i >= s.len THEN Ret(s, None, TRUE)
    ELSE LET c == ptr_copy(s, i + 1, i, s.len - i - 1)
             r == move_out(c, i)
         IN  Ret([r EXCEPT !.len = r.len - 1], Some(ptr_read(c, i)), FALSE)

remove(s, i) ==
    IF i >= s.len THEN Ret(s, None, TRUE)
    ELSE LET value == ptr_read(s, i)
             r == move_out(s, i)
             c == ptr_copy(r, i + 1, i, r.len - i - 1)
         IN  Ret([c EXCEPT !.len = c.len - 1], Some(value), FALSE)

\* Mutant of clear: forgets the elements instead of destroying them (a set_len(0)).
clear_forget(s) == Ret([s EXCEPT !.len = 0], None, FALSE)

\* Mutant of clear: the emptied buffer gives its allocation back.
clear_release(s) ==
    IF s.len > 0
    THEN LET d == dealloc(drop_slice(s, 0, s.len), s.capacity)
         IN  Ret([d EXCEPT !.len = 0, !.ptr = "dangling", !.capacity = 0], None, FALSE)
    ELSE Ret(s, None, FALSE)

clear(s) ==
    IF s.len > 0
    THEN Ret([drop_slice(s, 0, s.len) EXCEPT !.len = 0], None, FALSE)
    ELSE Ret(s, None, FALSE)

\* Mutant of shrink_to_fit: an empty buffer keeps its allocation.
shrink_to_fit_keep_empty(s) ==
    IF s.capacity = s.len \/ s.len = 0 THEN Ret(s, None, FALSE)
    ELSE LET r == realloc(s, s.capacity, s.len)
         IN  Ret([r EXCEPT !.ptr = "heap", !.capacity = s.len], None, FALSE)

\* Mutant of shrink_to_fit: the reallocated buffer keeps the old capacity field.
shrink_to_fit_stale_capacity(s) ==
    IF s.capacity = s.len THEN Ret(s, None, FALSE)
    ELSE IF s.len = 0
    THEN LET d == IF s.capacity > 0 THEN dealloc(s, s.capacity) ELSE s
         IN  Ret([d EXCEPT !.ptr = "dangling", !.capacity = 0], None, FALSE)
    ELSE LET r == realloc(s, s.capacity, s.len)
         IN  Ret([r EXCEPT !.ptr = "heap"], None, FALSE)

shrink_to_fit(s) ==
    IF s.capacity = s.len THEN Ret(s, None, FALSE)
    ELSE IF s.len = 0
    THEN LET d == IF s.capacity > 0 THEN dealloc(s, s.capacity) ELSE s
         IN  Ret([d EXCEPT !.ptr = "dangling", !.capacity = 0], None, FALSE)
    ELSE LET r == realloc(s, s.capacity, s.len)
         IN  Ret([r EXCEPT !.ptr = "heap", !.capacity = s.len], None, FALSE)

\* Index::index: v[i]
Index_index(s, i) ==
    IF i >= s.len THEN Ret(s, None, TRUE)
    ELSE Ret([s EXCEPT !.ub = s.ub \/ ~InBlock(s, i) \/ ptr_read(s, i) = Uninit],
             Some(ptr_read(s, i)), FALSE)

\* IndexMut::index_mut and an assignment through it, v[i] = value: the assignment
\* destroys the element in the slot and moves value in
IndexMut_assign(s, i, value) ==
    IF i >= s.len THEN Ret(s, None, TRUE)
    ELSE Ret(ptr_write(drop_in_place(s, i), i, value), None, FALSE)

\* Mutant of as_slice: the view spans the whole allocation, from_raw_parts(ptr, capacity).
as_slice_capacity(s) == [k \in 1..s.capacity |-> ptr_read(s, k - 1)]

\* as_slice / as_mut_slice / deref: from_raw_parts(ptr, len)
as_slice(s) == [k \in 1..s.len |-> ptr_read(s, k - 1)]

\* as_mut_slice()[i] = value: the slice's own bounds test, then the assignment
as_mut_slice_assign(s, i, value) ==
    IF i >= Len(as_slice(s)) THEN Ret(s, None, TRUE)
    ELSE Ret(ptr_write(drop_in_place(s, i), i, value), None, FALSE)

\* Mutant of Drop for MyVec: releases the allocation without destroying the elements.
Drop_MyVec_leak(s) ==
    IF s.capacity > 0 THEN dealloc(s, s.capacity) ELSE s

\* Drop for MyVec
Drop_MyVec(s) ==
    IF s.capacity > 0
    THEN dealloc(drop_slice(s, 0, s.len), s.capacity)
    ELSE s

(***************************************************************************)
(* MyVecIntoIter<T>                                                        *)
(***************************************************************************)

\* Mutant of into_iter: without mem::forget the MyVec is dropped as into_iter returns.
into_iter_no_forget(s) == [Drop_MyVec(s) EXCEPT !.index = 0]

\* IntoIterator::into_iter: the fields move to the iterator, the MyVec is forgotten
into_iter(s) ==
    [s EXCEPT !.ptr = s.ptr, !.len = s.len, !.capacity = s.capacity, !.index = 0]

\* Mutant of next: the test is index <= len, one call too many reads a slot.
next_inclusive(s) ==
    IF s.index <= s.len
    THEN Ret([move_out(s, s.index) EXCEPT !.index = s.index + 1],
             Some(ptr_read(s, s.index)), FALSE)
    ELSE Ret(s, None, FALSE)

\* Iterator::next
next(s) ==
    IF s.index < s.len
    THEN Ret([move_out(s, s.index) EXCEPT !.index = s.index + 1],
             Some(ptr_read(s, s.index)), FALSE)
    ELSE Ret(s, None, FALSE)

\* Mutant of the loop in Drop for MyVecIntoIter: destroys every element from slot 0.
drop_rest_all(s) == [drop_slice(s, 0, s.len) EXCEPT !.index = s.len]

\* Drop for MyVecIntoIter: the loop over the elements next() never returned
RECURSIVE drop_rest(_)
drop_rest(s) ==
    IF s.index < s.len
    THEN drop_rest([drop_in_place(s, s.index) EXCEPT !.index = s.index + 1])
    ELSE s

Drop_MyVecIntoIter(s) ==
    LET d == drop_rest(s)
    IN  IF d.capacity > 0 THEN dealloc(d, d.capacity) ELSE d

(***************************************************************************)
(* MyRefCell<T> (src/src/refcell.rs), on a record                          *)
(*   c = [borrow_count, value, refs, muts]                                 *)
(* where refs and muts count the Ref and RefMut guards that were handed    *)
(* out and not yet dropped.                                                *)
(***************************************************************************)

MyRefCell_new(value) == [borrow_count |-> 0, value |-> value, refs |-> 0, muts |-> 0]

\* MyRefCell::try_borrow
try_borrow(c) ==
    LET count == c.borrow_count
    IN  IF count < 0 THEN Ret(c, "Err", FALSE)
        ELSE Ret([c EXCEPT !.borrow_count = count + 1, !.refs = @ + 1], "Ok", FALSE)

\* Mutant of try_borrow_mut: refuses only while a RefMut is out (the test of try_borrow).
try_borrow_mut_lax(c) ==
    IF c.borrow_count < 0 THEN Ret(c, "Err", FALSE)
    ELSE Ret([c EXCEPT !.borrow_count = -1, !.muts = @ + 1], "Ok", FALSE)

\* MyRefCell::try_borrow_mut
try_borrow_mut(c) ==
    IF c.borrow_count # 0 THEN Ret(c, "Err", FALSE)
    ELSE Ret([c EXCEPT !.borrow_count = -1, !.muts = @ + 1], "Ok", FALSE)

\* Result::expect: panics on Err
expect(r) == IF r.result = "Err" THEN Ret(r.s, "Err", TRUE) ELSE r

\* MyRefCell::borrow
borrow(c) == expect(try_borrow(c))

\* MyRefCell::borrow_mut
borrow_mut(c) == expect(try_borrow_mut(c))

\* Mutant of Drop for Ref: resets the counter as Drop for RefMut does.
Drop_Ref_reset(c) == [c EXCEPT !.borrow_count = 0, !.refs = @ - 1]

\* Drop for Ref
Drop_Ref(c) ==
    LET count == c.borrow_count
    IN  [c EXCEPT !.borrow_count = count - 1, !.refs = @ - 1]

\* Drop for RefMut
Drop_RefMut(c) == [c EXCEPT !.borrow_count = 0, !.muts = @ - 1]

\* DerefMut for RefMut and an assignment through it, *guard = value
RefMut_assign(c, value) == [c EXCEPT !.value = value]

\* MyRefCell::replace: the RefMut is a temporary, dropped as the statement ends
MyRefCell_replace(c, value) ==
    LET b == borrow_mut(c)
    IN  IF b.panicked THEN b
        ELSE Ret(Drop_RefMut(RefMut_assign(b.s, value)), c.value, FALSE)

(***************************************************************************)
(* Rc0<T> and Weak0<T> (src/src/rc.rs), on a record                        *)
(*   r = [strong, weak, count, dropping, valueDrops, freed, rcs, weaks,    *)
(*        ub, wrapped]                                                     *)
(* strong and weak are the cells of RcInner; count is the local of the     *)
(* Rc0 drop in progress and dropping is TRUE while that drop runs the      *)
(* value's destructor; valueDrops and freed count the destructions of the  *)
(* value and the releases of the allocation; rcs and weaks count the Rc0   *)
(* and Weak0 handles that exist; ub is set by an access to the allocation  *)
(* after its release, wrapped by a usize subtraction below zero.           *)
(***************************************************************************)

\* Rc0::new
Rc0_new ==
    [strong |-> 1, weak |-> 1, count |-> 0, dropping |-> FALSE, valueDrops |-> 0,
     freed |-> 0, rcs |-> 1, weaks |-> 0, ub |-> FALSE, wrapped |-> FALSE]

\* unsafe { &*self.ptr }
inner(r) == [r EXCEPT !.ub = @ \/ r.freed > 0]

\* usize subtraction: below zero it panics or wraps, by the build
usize_dec(r, field, n) ==
    IF n = 0 THEN [r EXCEPT !.wrapped = TRUE] ELSE [r EXCEPT ![field] = n - 1]

\* drop(Box::from_raw(self.ptr))
Box_drop(r) == [r EXCEPT !.freed = @ + 1, !.ub = @ \/ r.freed > 0]

\* Rc0::strong_count and Weak0::strong_count
strong_count(r) == inner(r).strong

\* Rc0::weak_count
weak_count(r) == inner(r).weak - 1

\* Rc0::downgrade
downgrade(r) == [inner(r) EXCEPT !.weak = @ + 1, !.weaks = @ + 1]

\* Clone for Rc0
Rc0_clone(r) == [inner(r) EXCEPT !.strong = @ + 1, !.rcs = @ + 1]

\* Drop for Rc0, up to the value's destructor: count is read, and the value is
\* destroyed if count == 1
Rc0_drop_value(r) ==
    LET i == [inner(r) EXCEPT !.rcs = @ - 1, !.count = r.strong]
    IN  IF i.count = 1
        THEN [i EXCEPT !.valueDrops = @ + 1, !.dropping = TRUE, !.ub = @ \/ r.valueDrops > 0]
        ELSE i

\* Mutant of Rc0_drop_counts: the allocation is released with the value, whatever weak is.
Rc0_drop_counts_free(r) ==
    LET s == usize_dec([r EXCEPT !.dropping = FALSE], "strong", r.count)
    IN  IF r.count = 1
        THEN Box_drop(usize_dec(s, "weak", s.weak))
        ELSE s

\* Drop for Rc0, after the value's destructor: strong is set to count - 1 and,
\* if count == 1, the implicit weak reference is given up
Rc0_drop_counts(r) ==
    LET s == usize_dec([r EXCEPT !.dropping = FALSE], "strong", r.count)
    IN  IF r.count = 1
        THEN LET weak == s.weak
                 w == usize_dec(s, "weak", weak)
             IN  IF weak = 1 THEN Box_drop(w) ELSE w
        ELSE s

\* Mutant of Rc0_drop: every drop of a strong handle destroys the value.
Rc0_drop_always(r) ==
    Rc0_drop_counts([Rc0_drop_value(r) EXCEPT !.valueDrops = r.valueDrops + 1])

\* Drop for Rc0 with a value whose destructor leaves the handles alone
Rc0_drop(r) == Rc0_drop_counts(Rc0_drop_value(r))

\* Mutant of upgrade: no test of strong_count.
upgrade_unchecked(r) ==
    Ret([inner(r) EXCEPT !.strong = @ + 1, !.rcs = @ + 1], Some("rc"), FALSE)

\* Weak0::upgrade
upgrade(r) ==
    LET i == inner(r)
    IN  IF i.strong = 0 THEN Ret(i, None, FALSE)
        ELSE Ret([i EXCEPT !.strong = @ + 1, !.rcs = @ + 1], Some("rc"), FALSE)

\* Mutant of Weak0_clone: the new handle is not counted.
Weak0_clone_uncounted(r) == [inner(r) EXCEPT !.weaks = @ + 1]

\* Clone for Weak0
Weak0_clone(r) == [inner(r) EXCEPT !.weak = @ + 1, !.weaks = @ + 1]

\* Drop for Weak0
Weak0_drop(r) ==
    LET i == [inner(r) EXCEPT !.weaks = @ - 1]
        weak == i.weak
        w == usize_dec(i, "weak", weak)
    IN  IF weak = 1 /\ w.strong = 0 THEN Box_drop(w) ELSE w

(***************************************************************************)
(* The program: a buffer is constructed, called any number of times, and   *)
(* then either dropped or turned into an iterator that is advanced and     *)
(* dropped.  A panic is caught by the caller, who may go on; the value a   *)
(* panicking call was given never reaches the buffer, and the next call    *)
(* may offer it again.  An indexed read changes nothing: it is the         *)
(* operator Index_index, read in every state.                              *)
(***************************************************************************)

Self ==
    [ptr |-> ptr, len |-> len, capacity |-> capacity, index |-> index,
     slots |-> slots, live |-> live, ub |-> ub,
     destroyed |-> destroyed, handed |-> handed]

Install(s) ==
    /\ ptr' = s.ptr
    /\ len' = s.len
    /\ capacity' = s.capacity
    /\ index' = s.index
    /\ slots' = s.slots
    /\ live' = s.live
    /\ ub' = s.ub
    /\ destroyed' = s.destroyed
    /\ handed' = s.handed

\* the indexed read v[i]; a read that panics yields nothing
Read(s, i) ==
    LET r == Index_index(s, i)
    IN  IF r.panicked \/ r.result = None THEN Uninit ELSE r.result[1]

\* the indexed reads v[0], ..., v[len - 1]
Contents == [k \in 1..len |-> Read(Self, k - 1)]

\* the indexed reads of the second buffer
ContentsOf(s) == [k \in 1..s.len |-> Read(s, k - 1)]

\* a call on the buffer; bystander is what the second buffer held before it
Call(op, i, value, r) ==
    [op |-> op, index |-> i, value |-> value, result |-> r.result,
     panicked |-> r.panicked, pre |-> Contents, preLen |-> len, preCap |-> capacity,
     target |-> "self", bystander |-> ContentsOf(other)]

\* a call on the second buffer; bystander is what the first buffer held before it
CallOther(op, i, value, r) ==
    [op |-> op, index |-> i, value |-> value, result |-> r.result,
     panicked |-> r.panicked, pre |-> ContentsOf(other), preLen |-> other.len,
     preCap |-> other.capacity, target |-> "other", bystander |-> Contents]

NoMacro == [form |-> "none", elems |-> <<>>, n |-> 0, pos |-> 0, ref |-> 0, pc |-> "none"]

LifoIdle == [open |-> FALSE, base |-> <<>>, pushed |-> <<>>, popped |-> <<>>]

LifoPush(l, before, x) ==
    IF l.open /\ Len(l.popped) = 0
    THEN [l EXCEPT !.pushed = Append(@, x)]
    ELSE [open |-> TRUE, base |-> before, pushed |-> <<x>>, popped |-> <<>>]

LifoPop(l, res) ==
    IF l.open /\ Len(l.popped) < Len(l.pushed)
    THEN [l EXCEPT !.popped = Append(@, res)]
    ELSE LifoIdle

UndoIdle == [armed |-> FALSE, done |-> FALSE, index |-> 0, value |-> 0, pre |-> <<>>]

UndoInsert(before, i, value, r) ==
    IF r.panicked THEN UndoIdle
    ELSE [armed |-> TRUE, done |-> FALSE, index |-> i, value |-> value, pre |-> before]

UndoRemove(u, i) ==
    IF u.armed /\ i = u.index THEN [u EXCEPT !.armed = FALSE, !.done = TRUE] ELSE UndoIdle

\* no second buffer has been made: there is nothing to read from it
NoBuffer == [len |-> 0]

\* an object the program has not constructed
Absent == <<>>

\* with_capacity(0) returns new() itself, so the capacities drawn start at 1
InitVec ==
    /\ ctor \in {[fn |-> "new", n |-> 0]}
                \cup {[fn |-> "with_capacity", n |-> n] : n \in 1..MaxInitCap}
    /\ LET s == IF ctor.fn = "new" THEN new ELSE with_capacity(ctor.n)
       IN  /\ ptr = s.ptr
           /\ len = s.len
           /\ capacity = s.capacity
           /\ index = s.index
           /\ slots = s.slots
           /\ live = s.live
           /\ ub = s.ub
           /\ destroyed = s.destroyed
           /\ handed = s.handed
           /\ last = [op |-> "none", index |-> 0, value |-> 0, result |-> None,
                      panicked |-> FALSE, pre |-> <<>>, preLen |-> s.len,
                      preCap |-> s.capacity, target |-> "self", bystander |-> <<>>]
    /\ phase = "vec"
    /\ nextId = 1
    /\ stored = {}
    /\ onlyPush = TRUE
    /\ lifo = LifoIdle
    /\ undo = UndoIdle
    /\ nonePops = 0
    /\ iterSrc = <<>>
    /\ taken = <<>>
    /\ cloned = FALSE
    /\ calls = 0
    /\ macro = NoMacro
    /\ maxLen = 0

\* a program that constructs one buffer, and neither a MyRefCell nor an Rc0
Init ==
    /\ InitVec
    /\ other = NoBuffer
    /\ cell = Absent
    /\ rc = Absent

Push ==
    /\ phase = "vec"
    /\ nextId <= MaxElems
    /\ LET r == push(Self, nextId)
       IN  /\ Install(r.s)
           /\ last' = Call("push", 0, nextId, r)
    /\ lifo' = LifoPush(lifo, Contents, nextId)
    /\ stored' = stored \cup {nextId}
    /\ nextId' = nextId + 1
    /\ undo' = UndoIdle
    /\ nonePops' = 0
    /\ UNCHANGED <<phase, ctor, onlyPush, iterSrc, taken>>
    /\ UNCHANGED aux

Pop ==
    /\ phase = "vec"
    /\ LET r == pop(Self)
       IN  /\ Install(r.s)
           /\ last' = Call("pop", 0, 0, r)
           /\ lifo' = LifoPop(lifo, r.result)
           /\ nonePops' = IF r.result = None THEN Min(nonePops + 1, 2) ELSE 0
    /\ undo' = UndoIdle
    /\ onlyPush' = FALSE
    /\ UNCHANGED <<phase, ctor, stored, nextId, iterSrc, taken>>
    /\ UNCHANGED aux

Insert ==
    /\ phase = "vec"
    /\ nextId <= MaxElems
    /\ \E i \in 0..(len + 1) :
         LET r == insert(Self, i, nextId)
         IN  /\ Install(r.s)
             /\ last' = Call("insert", i, nextId, r)
             /\ undo' = UndoInsert(Contents, i, nextId, r)
             /\ stored' = IF r.panicked THEN stored ELSE stored \cup {nextId}
             /\ nextId' = IF r.panicked THEN nextId ELSE nextId + 1
    /\ lifo' = LifoIdle
    /\ onlyPush' = FALSE
    /\ nonePops' = 0
    /\ UNCHANGED <<phase, ctor, iterSrc, taken>>
    /\ UNCHANGED aux

Remove ==
    /\ phase = "vec"
    /\ \E i \in 0..len :
         LET r == remove(Self, i)
         IN  /\ Install(r.s)
             /\ last' = Call("remove", i, 0, r)
             /\ undo' = UndoRemove(undo, i)
    /\ lifo' = LifoIdle
    /\ onlyPush' = FALSE
    /\ nonePops' = 0
    /\ UNCHANGED <<phase, ctor, stored, nextId, iterSrc, taken>>
    /\ UNCHANGED aux

Clear ==
    /\ phase = "vec"
    /\ LET r == clear(Self)
       IN  /\ Install(r.s)
           /\ last' = Call("clear", 0, 0, r)
    /\ lifo' = LifoIdle
    /\ onlyPush' = FALSE
    /\ undo' = UndoIdle
    /\ nonePops' = 0
    /\ UNCHANGED <<phase, ctor, stored, nextId, iterSrc, taken>>
    /\ UNCHANGED aux

ShrinkToFit ==
    /\ phase = "vec"
    /\ LET r == shrink_to_fit(Self)
       IN  /\ Install(r.s)
           /\ last' = Call("shrink_to_fit", 0, 0, r)
    /\ lifo' = LifoIdle
    /\ onlyPush' = FALSE
    /\ undo' = UndoIdle
    /\ nonePops' = 0
    /\ UNCHANGED <<phase, ctor, stored, nextId, iterSrc, taken>>
    /\ UNCHANGED aux

IndexWrite ==
    /\ phase = "vec"
    /\ nextId <= MaxElems
    /\ \E i \in 0..len :
         LET r == IndexMut_assign(Self, i, nextId)
         IN  /\ Install(r.s)
             /\ last' = Call("index_mut", i, nextId, r)
             /\ stored' = IF r.panicked THEN stored ELSE stored \cup {nextId}
             /\ nextId' = IF r.panicked THEN nextId ELSE nextId + 1
    /\ lifo' = LifoIdle
    /\ onlyPush' = FALSE
    /\ undo' = UndoIdle
    /\ nonePops' = 0
    /\ UNCHANGED <<phase, ctor, iterSrc, taken>>
    /\ UNCHANGED aux

DropVec ==
    /\ phase = "vec"
    /\ Install(Drop_MyVec(Self))
    /\ last' = Call("drop", 0, 0, Ret(Self, None, FALSE))
    /\ phase' = "dropped"
    /\ lifo' = LifoIdle
    /\ onlyPush' = FALSE
    /\ undo' = UndoIdle
    /\ nonePops' = 0
    /\ UNCHANGED <<ctor, stored, nextId, iterSrc, taken>>
    /\ UNCHANGED aux

IntoIter ==
    /\ phase = "vec"
    /\ Install(into_iter(Self))
    /\ last' = Call("into_iter", 0, 0, Ret(Self, None, FALSE))
    /\ phase' = "iter"
    /\ iterSrc' = Contents
    /\ taken' = <<>>
    /\ lifo' = LifoIdle
    /\ onlyPush' = FALSE
    /\ undo' = UndoIdle
    /\ nonePops' = 0
    /\ UNCHANGED <<ctor, stored, nextId>>
    /\ UNCHANGED aux

IterNext ==
    /\ phase = "iter"
    /\ LET r == next(Self)
       IN  /\ Install(r.s)
           /\ last' = Call("next", 0, 0, r)
           /\ taken' = taken \o r.result
    /\ UNCHANGED <<phase, ctor, stored, nextId, onlyPush, lifo, iterSrc, undo, nonePops>>
    /\ UNCHANGED aux

DropIter ==
    /\ phase = "iter"
    /\ Install(Drop_MyVecIntoIter(Self))
    /\ last' = Call("drop_iter", 0, 0, Ret(Self, None, FALSE))
    /\ phase' = "dropped"
    /\ UNCHANGED <<ctor, stored, nextId, onlyPush, lifo, iterSrc, taken, undo, nonePops>>
    /\ UNCHANGED aux

Next ==
    \/ Push
    \/ Pop
    \/ Insert
    \/ Remove
    \/ Clear
    \/ ShrinkToFit
    \/ IndexWrite
    \/ DropVec
    \/ IntoIter
    \/ IterNext
    \/ DropIter

Spec == Init /\ [][Next]_vars

\* the calls on a buffer that is never turned into an iterator
NextVec ==
    \/ Push
    \/ Pop
    \/ Insert
    \/ Remove
    \/ Clear
    \/ ShrinkToFit
    \/ IndexWrite
    \/ DropVec

SpecVec == Init /\ [][NextVec]_vars

(***************************************************************************)
(* Properties                                                              *)
(***************************************************************************)

Disposals(e) == destroyed[e] + handed[e]

Elems(seq) == {seq[k] : k \in 1..Len(seq)}

\* seq with v spliced in at 0-based position i
Spliced(seq, i, v) == SubSeq(seq, 1, i) \o <<v>> \o SubSeq(seq, i + 1, Len(seq))

\* seq without its entry at 0-based position i
Without(seq, i) == SubSeq(seq, 1, i) \o SubSeq(seq, i + 2, Len(seq))

RECURSIVE Pow2From(_, _)
Pow2From(p, n) == IF p >= n THEN p ELSE Pow2From(2 * p, n)

\* 0 for 0, otherwise the smallest power of two >= n
DoublingCapacity(n) == IF n = 0 THEN 0 ELSE Pow2From(1, n)

\* C1: in every state of a live buffer, whatever calls led to it,
\* 0 <= len() <= capacity().
C1_LenWithinCapacity ==
    phase = "vec" => 0 <= len /\ len <= capacity

C1_Witness ==
    /\ phase = "vec"
    /\ last.op = "insert" /\ ~last.panicked
    /\ last.preLen = last.preCap
    /\ len < capacity
    /\ \E e \in Ids : handed[e] = 1

\* C2: along any run of calls on a MyVec that ends with its drop, no element
\* that was stored is disposed of twice (moved out to the caller and destroyed,
\* or destroyed twice), an element is undisposed exactly while it is one of the
\* live elements, and after the drop every stored element has been disposed of
\* exactly once.
C2_DisposedExactlyOnce ==
    (phase = "vec" \/ last.op = "drop") =>
        /\ \A e \in stored : Disposals(e) <= 1
        /\ phase = "vec" =>
             LET held == Elems(Contents)
             IN  \A e \in stored : (Disposals(e) = 0) <=> (e \in held)
        /\ last.op = "drop" => \A e \in stored : Disposals(e) = 1

C2_Witness ==
    /\ phase = "dropped" /\ last.op = "drop"
    /\ last.preLen >= 2
    /\ \E a \in stored : handed[a] = 1
    /\ \E b \in stored \ Elems(last.pre) : destroyed[b] = 1

\* C3: a buffer of N elements turned into an iterator, advanced K times and then
\* dropped: the consumer got exactly the elements 0..K-1 in order, each moved out
\* once and never destroyed; the drop destroys exactly the elements K..N-1, once
\* each; N disposals in all.
C3_IterPartialDrop ==
    /\ phase = "iter" =>
         /\ index = Len(taken) /\ index <= Len(iterSrc)
         /\ taken = SubSeq(iterSrc, 1, index)
         /\ \A k \in 1..Len(iterSrc) :
              /\ handed[iterSrc[k]] = (IF k <= index THEN 1 ELSE 0)
              /\ destroyed[iterSrc[k]] = 0
    /\ last.op = "drop_iter" =>
         LET K == Len(taken)
             N == Len(iterSrc)
         IN  /\ K <= N
             /\ taken = SubSeq(iterSrc, 1, K)
             /\ \A k \in 1..N :
                  /\ handed[iterSrc[k]] = (IF k <= K THEN 1 ELSE 0)
                  /\ destroyed[iterSrc[k]] = (IF k <= K THEN 0 ELSE 1)
             /\ \A e \in stored : Disposals(e) = 1

C3_Witness ==
    /\ last.op = "drop_iter"
    /\ Len(iterSrc) >= 3
    /\ Len(taken) >= 1
    /\ Len(iterSrc) - Len(taken) >= 2

\* C4: after N pushes on MyVec::new() and nothing else, len() is N and capacity()
\* is 0 for N = 0 and otherwise the smallest power of two >= N; the capacity
\* changes on exactly the pushes that find len == capacity.
C4_DoublingSchedule ==
    (phase = "vec" /\ ctor.fn = "new" /\ onlyPush) =>
        /\ len = nextId - 1
        /\ capacity = DoublingCapacity(len)
        /\ last.op = "push" =>
             ((capacity # last.preCap) <=> (last.preLen = last.preCap))

C4_Witness ==
    /\ phase = "vec" /\ ctor.fn = "new" /\ onlyPush
    /\ len = 3 /\ capacity = 4
    /\ last.op = "push" /\ last.preCap = 2

\* C5: a push or insert that succeeds changes the capacity if and only if the
\* buffer was full (len == capacity) before it, and then to 1 from 0 and to
\* twice the old capacity otherwise.
C5_GrowthRule ==
    (last.op \in {"push", "insert"} /\ ~last.panicked) =>
        /\ (capacity # last.preCap) <=> (last.preLen = last.preCap)
        /\ capacity # last.preCap =>
             capacity = (IF last.preCap = 0 THEN 1 ELSE 2 * last.preCap)

C5_Witness ==
    /\ last.op = "insert" /\ ~last.panicked
    /\ ctor.fn = "with_capacity"
    /\ last.preCap = 3 /\ capacity = 6

\* C6: after insert(i, v) with 0 <= i <= len, the indexed reads give the old
\* elements before i, then v, then the old elements from i on in their old order,
\* and len is one more, also when the insert had to grow the buffer.
C6_InsertSplices ==
    (last.op = "insert" /\ ~last.panicked) =>
        /\ len = last.preLen + 1
        /\ Contents = Spliced(last.pre, last.index, last.value)

C6_Witness ==
    /\ last.op = "insert" /\ ~last.panicked
    /\ last.preLen = last.preCap
    /\ last.preLen >= 3
    /\ last.index = 1

\* C7: remove(i) directly after insert(i, v) returns v and leaves the element
\* sequence and the length as they were before the insert.
C7_RemoveUndoesInsert ==
    undo.done =>
        /\ last.op = "remove" /\ ~last.panicked
        /\ last.result = Some(undo.value)
        /\ Contents = undo.pre
        /\ len = Len(undo.pre)

C7_Witness ==
    /\ undo.done
    /\ Len(undo.pre) >= 2
    /\ undo.index = 1
    /\ capacity > Len(undo.pre)

\* C8: remove(i) with 0 <= i < len returns the element that was at i and leaves
\* the elements before i followed by those after i, in their old order; len is
\* one less.
C8_RemoveClosesGap ==
    (last.op = "remove" /\ ~last.panicked) =>
        /\ last.result = Some(last.pre[last.index + 1])
        /\ len = last.preLen - 1
        /\ Contents = Without(last.pre, last.index)

C8_Witness ==
    /\ last.op = "remove" /\ ~last.panicked
    /\ last.preLen = 4
    /\ last.index = 1

\* C9: after pushes x1..xk and then j <= k pops, the pops returned Some(xk),
\* Some(x(k-1)), ... in that order and the buffer holds what it held before the
\* pushes followed by x1..x(k-j); after k pops it is as it was before the pushes.
C9_PushPopLifo ==
    lifo.open =>
        LET k == Len(lifo.pushed)
            j == Len(lifo.popped)
        IN  /\ j <= k
            /\ \A m \in 1..j : lifo.popped[m] = Some(lifo.pushed[k - m + 1])
            /\ Contents = lifo.base \o SubSeq(lifo.pushed, 1, k - j)
            /\ len = Len(lifo.base) + k - j

C9_Witness ==
    /\ lifo.open
    /\ Len(lifo.pushed) >= 2
    /\ Len(lifo.popped) = Len(lifo.pushed)
    /\ Len(lifo.base) >= 1

\* C10: pop() returns None exactly when the buffer is empty; it then does not
\* panic and leaves len, capacity and the allocation as they were, every time
\* it is repeated.
C10_PopOnEmpty ==
    /\ last.op = "pop" =>
         /\ ~last.panicked
         /\ (last.result = None) <=> (last.preLen = 0)
         /\ last.preLen = 0 =>
              /\ len = 0
              /\ capacity = last.preCap
              /\ Contents = last.pre
              /\ Len(slots) = last.preCap
    /\ nonePops > 0 => last.op = "pop" /\ last.result = None /\ len = 0

C10_Witness ==
    /\ last.op = "pop"
    /\ nonePops = 2
    /\ last.result = None
    /\ capacity > 0
    /\ \E e \in Ids : handed[e] = 1

\* C11: a bounds violation panics exactly at the stated bound: an indexed read
\* or write and remove(index) panic if and only if index >= len, insert(index, v)
\* if and only if index > len; every call within the bound succeeds.
C11_PanicsExactlyOutOfBounds ==
    /\ phase = "vec" =>
         \A i \in 0..(len + 2) :
           LET r == Index_index(Self, i)
           IN  /\ r.panicked <=> (i >= len)
               /\ ~r.panicked => r.result = Some(slots[i + 1])
    /\ last.op \in {"index_mut", "remove"} =>
         (last.panicked <=> (last.index >= last.preLen))
    /\ last.op = "insert" => (last.panicked <=> (last.index > last.preLen))

C11_Witness ==
    /\ last.op = "insert" /\ ~last.panicked
    /\ last.index = last.preLen
    /\ last.preLen >= 2
    /\ last.preLen = last.preCap

\* C12: clear() leaves len() = 0, has destroyed every element that was live
\* (once, none moved out) and keeps capacity(); a shrink_to_fit() called on the
\* cleared buffer leaves capacity() = 0 and no allocation.
C12_ClearThenShrink ==
    /\ last.op = "clear" =>
         /\ ~last.panicked
         /\ len = 0
         /\ capacity = last.preCap
         /\ \A e \in Elems(last.pre) : destroyed[e] = 1 /\ handed[e] = 0
         /\ LET after == shrink_to_fit(Self).s
            IN  after.capacity = 0 /\ after.len = 0 /\ ~after.live /\ ~after.ub
    /\ (last.op = "shrink_to_fit" /\ last.preLen = 0) => (capacity = 0 /\ ~live)

C12_Witness ==
    /\ last.op = "clear"
    /\ last.preLen >= 2
    /\ last.preCap > last.preLen

\* C13: after shrink_to_fit() capacity() equals len(), and len() and the element
\* sequence are what they were; a buffer whose capacity already equals its len
\* is left exactly as it is, so a second shrink_to_fit() changes nothing.
C13_ShrinkToFit ==
    /\ last.op = "shrink_to_fit" =>
         /\ ~last.panicked
         /\ capacity = len
         /\ len = last.preLen
         /\ Contents = last.pre
         /\ shrink_to_fit(Self).s = Self
    /\ (phase = "vec" /\ capacity = len) => shrink_to_fit(Self).s = Self

C13_Witness ==
    /\ last.op = "shrink_to_fit"
    /\ last.preCap > last.preLen
    /\ last.preLen >= 2

\* C14: with_capacity(n) gives len() = 0 and capacity() = n, and the capacity is
\* still n after each of the first n pushes; the push that finds len = n is the
\* first to change it; with_capacity(0) is the buffer new() gives.
C14_WithCapacity ==
    /\ with_capacity(0) = new
    /\ \A n \in 0..MaxInitCap :
         with_capacity(n).len = 0 /\ with_capacity(n).capacity = n
    /\ (phase = "vec" /\ ctor.fn = "with_capacity" /\ onlyPush) =>
         /\ len = nextId - 1
         /\ len <= ctor.n => capacity = ctor.n
         /\ len > ctor.n => capacity > ctor.n

C14_Witness ==
    /\ phase = "vec" /\ ctor.fn = "with_capacity" /\ onlyPush
    /\ ctor.n = 3
    /\ len = 3 /\ capacity = 3
    /\ last.op = "push"

\* C17: the iterator of a buffer e0..e(N-1) returns Some(e(j-1)) on its j-th
\* call for j <= N and None on every later call; an exhausted iterator is not
\* changed by next(), so it stays exhausted; the cursor never exceeds the length.
C17_IterSequence ==
    phase = "iter" =>
        /\ len = Len(iterSrc)
        /\ index <= len
        /\ Len(taken) = index
        /\ \A j \in 1..Len(taken) : j <= Len(iterSrc) /\ taken[j] = iterSrc[j]
        /\ last.op = "next" =>
             IF last.result = None
             THEN index = len
             ELSE index >= 1 /\ index <= len /\ last.result = Some(iterSrc[index])
        /\ index < len => next(Self).result = Some(iterSrc[index + 1])
        /\ index >= len => next(Self) = Ret(Self, None, FALSE)

C17_Witness ==
    /\ phase = "iter"
    /\ last.op = "next" /\ last.result = None
    /\ Len(iterSrc) >= 3
    /\ taken = iterSrc

\* C18: into_iter() hands the cleanup to the iterator: the conversion destroys
\* no element and releases nothing; the allocation stays live for as long as
\* the iterator does and is released by its drop, after the elements in
\* [cursor, length) were destroyed, once, and only when capacity > 0.
C18_IterOwnsCleanup ==
    /\ last.op = "into_iter" =>
         /\ \A k \in 1..Len(iterSrc) : Disposals(iterSrc[k]) = 0
         /\ len = last.preLen /\ capacity = last.preCap
    /\ phase = "iter" =>
         /\ live <=> (capacity > 0)
         /\ Len(slots) = capacity
         /\ ~ub
    /\ last.op = "drop_iter" =>
         /\ ~live
         /\ ~ub
         /\ \A k \in 1..Len(iterSrc) :
              k > Len(taken) => destroyed[iterSrc[k]] = 1

C18_Witness ==
    /\ last.op = "drop_iter"
    /\ last.preCap > 0
    /\ Len(taken) >= 1
    /\ Len(iterSrc) > Len(taken)

\* C19: the buffer holds an allocation exactly while capacity > 0, of exactly
\* capacity slots, so every realloc and dealloc names the size that was
\* allocated; nothing is released twice or when capacity is 0 (any such call
\* would set ub).
C19_AllocationMatchesCapacity ==
    /\ phase \in {"vec", "iter"} =>
         /\ live <=> (capacity > 0)
         /\ (ptr = "heap") <=> (capacity > 0)
         /\ Len(slots) = capacity
    /\ phase = "dropped" => ~live /\ slots = <<>>
    /\ ~ub

C19_Witness ==
    /\ phase = "dropped" /\ last.op = "drop"
    /\ last.preCap > ctor.n
    /\ ctor.n > 0
    /\ \E e \in Ids : destroyed[e] = 1 /\ e \notin Elems(last.pre)

\* C20: the slice view is exactly the live range: as_slice() has len() entries,
\* its i-th entry is the element v[i], the entries are the live elements and
\* nothing of [len, capacity); as_mut_slice()[i] = x succeeds exactly for i < len
\* and then entry i of the slice is x and every other entry is as before.
C20_SliceIsLiveRange ==
    phase = "vec" =>
        LET view == as_slice(Self)
        IN  /\ Len(view) = len
            /\ \A i \in 0..(len - 1) :
                 i < Len(view) /\ view[i + 1] = Read(Self, i) /\ view[i + 1] # Uninit
            /\ Elems(view) = {e \in stored : Disposals(e) = 0}
            /\ Cardinality(Elems(view)) = len
            /\ \A i \in 0..len :
                 LET x == Min(nextId, MaxElems)
                     w == as_mut_slice_assign(Self, i, x)
                 IN  /\ w.panicked <=> (i >= len)
                     /\ ~w.panicked =>
                          /\ as_slice(w.s)[i + 1] = x
                          /\ \A j \in 0..(len - 1) :
                               j # i => as_slice(w.s)[j + 1] = view[j + 1]

C20_Witness ==
    /\ phase = "vec"
    /\ last.op = "remove" /\ ~last.panicked
    /\ len >= 2
    /\ capacity > len
    /\ slots[len + 1] # Uninit

(***************************************************************************)
(* Clone                                                                   *)
(***************************************************************************)

RECURSIVE clone_loop_reversed(_, _, _)
clone_loop_reversed(self, new_vec, i) ==
    IF i >= self.len THEN new_vec
    ELSE clone_loop_reversed(self,
             push(new_vec, elem_clone(Read(self, self.len - 1 - i))).s, i + 1)

\* Mutant of clone: the elements are copied back to front.
clone_reversed(self) == clone_loop_reversed(self, with_capacity(self.len), 0)

\* for i in 0..self.len { new_vec.push(self[i].clone()); }
RECURSIVE clone_loop(_, _, _)
clone_loop(self, new_vec, i) ==
    IF i >= self.len THEN new_vec
    ELSE clone_loop(self, push(new_vec, elem_clone(Read(self, i))).s, i + 1)

\* Clone for MyVec: a buffer of its own, allocated with_capacity(self.len)
clone(self) == clone_loop(self, with_capacity(self.len), 0)

\* let v2 = v1.clone();
CloneVec ==
    /\ phase = "vec"
    /\ ~cloned
    /\ other' = clone(Self)
    /\ cloned' = TRUE
    /\ last' = [Call("clone", 0, 0, Ret(Self, None, FALSE)) EXCEPT !.bystander = <<>>]
    /\ lifo' = LifoIdle
    /\ undo' = UndoIdle
    /\ nonePops' = 0
    /\ onlyPush' = FALSE
    /\ UNCHANGED <<phase, ptr, len, capacity, index, slots, live, ub, destroyed,
                   handed, nextId, ctor, stored, iterSrc, taken, calls, macro,
                   maxLen, cell, rc>>

\* the methods called on the two buffers, and those that take an element
CloneOps == {"push", "pop", "insert", "remove", "clear", "index_mut"}

TakesValue(op) == op \in {"push", "insert", "index_mut"}

\* the call v.op(..) with index i and element x
Apply(op, s, i, x) ==
    CASE op = "push" -> push(s, x)
      [] op = "pop" -> pop(s)
      [] op = "insert" -> insert(s, i, x)
      [] op = "remove" -> remove(s, i)
      [] op = "clear" -> clear(s)
      [] OTHER -> IndexMut_assign(s, i, x)

\* the buffer is built by pushes before it is cloned
BuildPush == ~cloned /\ Push

\* the part of the state a call after the clone leaves alone
CloneFrame ==
    /\ calls' = calls + 1
    /\ lifo' = LifoIdle
    /\ undo' = UndoIdle
    /\ nonePops' = 0
    /\ onlyPush' = FALSE
    /\ UNCHANGED <<phase, ctor, iterSrc, taken, cloned, macro, maxLen, cell, rc>>

\* a call on the original after the clone
SelfCall ==
    /\ cloned
    /\ phase = "vec"
    /\ calls < MaxCloneCalls
    /\ \E op \in CloneOps : \E i \in 0..(len + 1) :
         /\ TakesValue(op) => nextId <= MaxElems
         /\ LET r == Apply(op, Self, i, nextId)
                used == TakesValue(op) /\ ~r.panicked
            IN  /\ Install(r.s)
                /\ last' = Call(op, i, nextId, r)
                /\ stored' = IF used THEN stored \cup {nextId} ELSE stored
                /\ nextId' = IF used THEN nextId + 1 ELSE nextId
    /\ UNCHANGED other
    /\ CloneFrame

\* a call on the clone
OtherCall ==
    /\ cloned
    /\ calls < MaxCloneCalls
    /\ \E op \in CloneOps : \E i \in 0..(other.len + 1) :
         /\ TakesValue(op) => nextId <= MaxElems
         /\ LET r == Apply(op, other, i, nextId)
                used == TakesValue(op) /\ ~r.panicked
            IN  /\ other' = r.s
                /\ last' = CallOther(op, i, nextId, r)
                /\ nextId' = IF used THEN nextId + 1 ELSE nextId
    /\ UNCHANGED <<ptr, len, capacity, index, slots, live, ub, destroyed, handed, stored>>
    /\ CloneFrame

NextClone ==
    \/ BuildPush
    \/ CloneVec
    \/ SelfCall
    \/ OtherCall

SpecClone == Init /\ [][NextClone]_vars

\* the values of a sequence of elements
Values(q) == [k \in 1..Len(q) |-> Value(q[k])]

\* C15: clone() returns a buffer with the same length and equal elements in the
\* same order, made of elements of its own, and leaves the original as it was;
\* afterwards a call on either buffer leaves the length and the elements of the
\* other one as they were.
C15_CloneEqualIndependent ==
    cloned =>
        /\ ~other.ub
        /\ last.op = "clone" =>
             /\ other.len = len
             /\ Values(ContentsOf(other)) = Values(Contents)
             /\ Contents = last.pre
             /\ Elems(ContentsOf(other)) \cap Elems(Contents) = {}
             /\ other.capacity = len
        /\ (last.op # "clone" /\ last.target = "self") =>
             ContentsOf(other) = last.bystander
        /\ last.target = "other" => Contents = last.bystander

C15_Witness ==
    /\ cloned
    /\ last.target = "other"
    /\ last.op = "index_mut" /\ ~last.panicked
    /\ len >= 2
    /\ other.len = len
    /\ Values(ContentsOf(other)) # Values(Contents)

(***************************************************************************)
(* my_vec!                                                                 *)
(***************************************************************************)

\* the invocations my_vec![], my_vec![a, b, ...] and my_vec![x; n]
MacroInputs ==
    {[form |-> "empty", elems |-> <<>>, n |-> 0]}
    \cup {[form |-> "list", elems |-> q, n |-> Len(q)] :
            q \in UNION {[1..k -> Ids] : k \in 1..MaxMacroLen}}
    \cup {[form |-> "repeat", elems |-> <<x>>, n |-> n] :
            x \in Ids, n \in 0..MaxMacroLen}

\* Mutant of my_vec_init: every form starts from MyVec::new().
my_vec_init_new(m) == new

\* the buffer an arm of the macro starts from
my_vec_init(m) == IF m.form = "repeat" THEN with_capacity(m.n) ELSE new

\* the number of pushes an arm of the macro makes
my_vec_count(m) ==
    CASE m.form = "repeat" -> m.n
      [] m.form = "list" -> Len(m.elems)
      [] OTHER -> 0

\* the element of the k-th push: $elem.clone(), or the k-th listed expression
my_vec_elem(m, k) ==
    IF m.form = "repeat" THEN elem_clone(m.elems[1]) ELSE m.elems[k]

\* the elements an invocation denotes: my_vec![0; 5] is [0, 0, 0, 0, 0]
Denoted(m) ==
    IF m.form = "repeat" THEN [k \in 1..m.n |-> elem_clone(m.elems[1])] ELSE m.elems

InitMacro ==
    /\ \E m \in MacroInputs :
         /\ macro = [form |-> m.form, elems |-> m.elems, n |-> m.n,
                     pos |-> 0, ref |-> 0, pc |-> "building"]
         /\ LET s == my_vec_init(m)
            IN  /\ ptr = s.ptr
                /\ len = s.len
                /\ capacity = s.capacity
                /\ index = s.index
                /\ slots = s.slots
                /\ live = s.live
                /\ ub = s.ub
                /\ destroyed = s.destroyed
                /\ handed = s.handed
                /\ last = [op |-> "none", index |-> 0, value |-> 0, result |-> None,
                           panicked |-> FALSE, pre |-> <<>>, preLen |-> s.len,
                           preCap |-> s.capacity, target |-> "self",
                           bystander |-> <<>>]
    /\ ctor = [fn |-> "my_vec", n |-> 0]
    /\ phase = "vec"
    /\ nextId = 1
    /\ stored = {}
    /\ onlyPush = TRUE
    /\ lifo = LifoIdle
    /\ undo = UndoIdle
    /\ nonePops = 0
    /\ iterSrc = <<>>
    /\ taken = <<>>
    /\ other = new
    /\ cloned = FALSE
    /\ calls = 0
    /\ maxLen = 0
    /\ cell = Absent
    /\ rc = Absent

\* v.push(..) inside the macro
MacroPush ==
    /\ macro.pc = "building"
    /\ macro.pos < my_vec_count(macro)
    /\ LET x == my_vec_elem(macro, macro.pos + 1)
           r == push(Self, x)
       IN  /\ Install(r.s)
           /\ last' = Call("push", 0, x, r)
           /\ stored' = stored \cup {x}
    /\ macro' = [macro EXCEPT !.pos = @ + 1]
    /\ UNCHANGED <<phase, nextId, ctor, onlyPush, lifo, undo, nonePops, iterSrc,
                   taken, other, cloned, calls, maxLen, cell, rc>>

\* the same elements pushed one by one onto MyVec::new()
RefPush ==
    /\ macro.pc = "building"
    /\ macro.ref < Len(Denoted(macro))
    /\ LET x == Denoted(macro)[macro.ref + 1]
           r == push(other, x)
       IN  /\ other' = r.s
           /\ last' = CallOther("push", 0, x, r)
    /\ macro' = [macro EXCEPT !.ref = @ + 1]
    /\ UNCHANGED <<phase, ptr, len, capacity, index, slots, live, ub, destroyed,
                   handed, nextId, ctor, stored, onlyPush, lifo, undo, nonePops,
                   iterSrc, taken, cloned, calls, maxLen, cell, rc>>

\* the macro has returned v and the pushes onto the other buffer are made
MacroDone ==
    /\ macro.pc = "building"
    /\ macro.pos >= my_vec_count(macro)
    /\ macro.ref >= Len(Denoted(macro))
    /\ macro' = [macro EXCEPT !.pc = "done"]
    /\ UNCHANGED <<phase, ptr, len, capacity, index, slots, live, ub, destroyed,
                   handed, nextId, ctor, stored, onlyPush, last, lifo, undo,
                   nonePops, iterSrc, taken, other, cloned, calls, maxLen, cell, rc>>

NextMacro ==
    \/ MacroPush
    \/ RefPush
    \/ MacroDone

SpecMacro == InitMacro /\ [][NextMacro]_vars

\* C16 as stated: a my_vec! buffer has the same len(), the same elements and the
\* same capacity() as a MyVec::new() buffer onto which the same elements were
\* pushed one by one.
C16_Original ==
    macro.pc = "done" =>
        /\ len = other.len
        /\ Contents = ContentsOf(other)
        /\ capacity = other.capacity

\* C16: a my_vec! buffer has the same len() and the same elements in the same
\* order as a MyVec::new() buffer onto which the same elements were pushed one
\* by one; my_vec![] and my_vec![a, b, ...] also have its capacity(), while
\* my_vec![x; n] has capacity() exactly n; my_vec![] and my_vec![x; 0] are
\* empty and own no allocation.
C16_MacroMatchesPushes ==
    macro.pc = "done" =>
        /\ ~ub /\ ~other.ub
        /\ len = other.len
        /\ Contents = ContentsOf(other)
        /\ Contents = Denoted(macro)
        /\ macro.form \in {"empty", "list"} => capacity = other.capacity
        /\ macro.form = "repeat" => capacity = macro.n
        /\ (macro.form = "empty" \/ (macro.form = "repeat" /\ macro.n = 0)) =>
             len = 0 /\ capacity = 0 /\ ~live

C16_Witness ==
    /\ macro.pc = "done"
    /\ macro.form = "repeat"
    /\ macro.n = 3
    /\ len = 3
    /\ capacity = 3
    /\ other.capacity = 4

(***************************************************************************)
(* Capacity and failing calls                                              *)
(***************************************************************************)

\* C26: pop() and remove(i) never change capacity, whether they return an
\* element, return None or panic; and no call on a live buffer other than
\* shrink_to_fit lowers capacity.
C26_PopRemoveKeepCapacity ==
    /\ last.op \in {"pop", "remove"} => capacity = last.preCap
    /\ (phase = "vec" /\ last.op # "shrink_to_fit") => capacity >= last.preCap
    /\ phase = "vec" =>
         /\ pop(Self).s.capacity = capacity
         /\ \A i \in 0..len : remove(Self, i).s.capacity = capacity

C26_Witness ==
    /\ phase = "vec"
    /\ last.op = "remove" /\ ~last.panicked
    /\ len = 0
    /\ capacity >= 4

\* C27: a call that panics with a bounds error leaves the buffer as it was:
\* after a failing insert, remove or indexed write, len, capacity and the
\* elements are those before the call and the rejected value is not stored;
\* in every state a failing insert, remove, indexed read or indexed write
\* returns the buffer unchanged, slot for slot.
C27_FailingCallNoEffect ==
    /\ last.panicked =>
         /\ last.op \in {"insert", "remove", "index_mut"}
         /\ len = last.preLen
         /\ capacity = last.preCap
         /\ Contents = last.pre
         /\ last.op \in {"insert", "index_mut"} =>
              last.value \notin Elems(Contents) /\ last.value \notin stored
    /\ phase = "vec" =>
         LET x == Min(nextId, MaxElems)
         IN  /\ insert(Self, len + 1, x) = Ret(Self, None, TRUE)
             /\ remove(Self, len) = Ret(Self, None, TRUE)
             /\ Index_index(Self, len) = Ret(Self, None, TRUE)
             /\ IndexMut_assign(Self, len, x) = Ret(Self, None, TRUE)

C27_Witness ==
    /\ last.op = "insert" /\ last.panicked
    /\ last.preLen = last.preCap
    /\ last.preLen >= 2
    /\ capacity = len

(***************************************************************************)
(* Capacity of a buffer that is never shrunk                               *)
(***************************************************************************)

Max(a, b) == IF a > b THEN a ELSE b

\* a buffer made by MyVec::new()
InitGrow == Init /\ ctor.fn = "new"

\* any of push, pop, insert, remove, clear and indexed write
GrowCall ==
    /\ phase = "vec"
    /\ \E op \in CloneOps : \E i \in 0..(len + 1) :
         /\ TakesValue(op) => nextId <= MaxElems
         /\ LET r == Apply(op, Self, i, nextId)
                used == TakesValue(op) /\ ~r.panicked
            IN  /\ Install(r.s)
                /\ last' = Call(op, i, nextId, r)
                /\ stored' = IF used THEN stored \cup {nextId} ELSE stored
                /\ nextId' = IF used THEN nextId + 1 ELSE nextId
                /\ maxLen' = Max(maxLen, r.s.len)
    /\ lifo' = LifoIdle
    /\ undo' = UndoIdle
    /\ nonePops' = 0
    /\ onlyPush' = FALSE
    /\ UNCHANGED <<phase, ctor, iterSrc, taken, other, cloned, calls, macro, cell, rc>>

NextGrow == GrowCall

SpecGrow == InitGrow /\ [][NextGrow]_vars

\* C28: for a buffer made by new() and driven by any interleaving of push, pop,
\* insert, remove, clear and indexed writes, capacity is 0 while no element was
\* ever stored and otherwise the smallest power of two that is at least the
\* largest len the buffer has had; so it is always 0 or a power of two.
C28_CapacityFollowsMaxLen ==
    /\ capacity = DoublingCapacity(maxLen)
    /\ (capacity = 0) <=> (stored = {})
    /\ capacity # 0 => \E k \in 0..MaxElems : capacity = 2 ^ k
    /\ len <= maxLen /\ maxLen <= capacity

C28_Witness ==
    /\ last.op = "clear"
    /\ maxLen = 3
    /\ capacity = 4
    /\ len = 0
    /\ nextId > MaxElems

(***************************************************************************)
(* MyRefCell: a cell is made, borrowed from, written through a RefMut and  *)
(* replaced, and the guards are dropped, in any order.  A panic is caught  *)
(* by the caller, who goes on.  Guards are dropped, never leaked.          *)
(***************************************************************************)

\* the variables of the buffers, which a call on a cell or a handle leaves alone
vecVars ==
    <<phase, ptr, len, capacity, index, slots, live, ub, destroyed, handed, nextId,
      ctor, stored, onlyPush, lifo, undo, nonePops, iterSrc, taken, other, cloned,
      calls, macro, maxLen>>

\* a call on the cell, its result and the cell before it
CellCall(op, r) ==
    [op |-> op, result |-> r.result, panicked |-> r.panicked, pre |-> cell,
     target |-> "cell"]

\* let cell = MyRefCell::new(1);
InitCell ==
    /\ InitVec /\ ctor.fn = "new"
    /\ other = NoBuffer
    /\ cell = MyRefCell_new(1)
    /\ rc = Absent

TryBorrow ==
    /\ cell.refs < MaxGuards
    /\ LET r == try_borrow(cell)
       IN  cell' = r.s /\ last' = CellCall("try_borrow", r)
    /\ UNCHANGED <<vecVars, rc>>

Borrow ==
    /\ cell.refs < MaxGuards
    /\ LET r == borrow(cell)
       IN  cell' = r.s /\ last' = CellCall("borrow", r)
    /\ UNCHANGED <<vecVars, rc>>

TryBorrowMut ==
    /\ LET r == try_borrow_mut(cell)
       IN  cell' = r.s /\ last' = CellCall("try_borrow_mut", r)
    /\ UNCHANGED <<vecVars, rc>>

BorrowMut ==
    /\ LET r == borrow_mut(cell)
       IN  cell' = r.s /\ last' = CellCall("borrow_mut", r)
    /\ UNCHANGED <<vecVars, rc>>

DropRef ==
    /\ cell.refs > 0
    /\ cell' = Drop_Ref(cell)
    /\ last' = CellCall("drop_ref", Ret(cell, "Ok", FALSE))
    /\ UNCHANGED <<vecVars, rc>>

DropRefMut ==
    /\ cell.muts > 0
    /\ cell' = Drop_RefMut(cell)
    /\ last' = CellCall("drop_ref_mut", Ret(cell, "Ok", FALSE))
    /\ UNCHANGED <<vecVars, rc>>

\* *guard = value through a RefMut that is out
WriteMut ==
    /\ cell.muts > 0
    /\ \E value \in Ids :
         /\ cell' = RefMut_assign(cell, value)
         /\ last' = CellCall("write", Ret(cell, "Ok", FALSE))
    /\ UNCHANGED <<vecVars, rc>>

Replace ==
    /\ \E value \in Ids :
         LET r == MyRefCell_replace(cell, value)
         IN  cell' = r.s /\ last' = CellCall("replace", r)
    /\ UNCHANGED <<vecVars, rc>>

NextCell ==
    \/ TryBorrow
    \/ Borrow
    \/ TryBorrowMut
    \/ BorrowMut
    \/ DropRef
    \/ DropRefMut
    \/ WriteMut
    \/ Replace

SpecCell == InitCell /\ [][NextCell]_vars

\* C21: try_borrow returns Err, and borrow panics, exactly when a RefMut guard is
\* live; try_borrow_mut returns Err, and borrow_mut panics, exactly when a Ref or
\* a RefMut guard is live; so a live RefMut never coexists with another guard,
\* while several Ref guards may coexist.
C21_SharedXorExclusive ==
    /\ cell.muts <= 1
    /\ cell.muts = 1 => cell.refs = 0
    /\ (try_borrow(cell).result = "Err") <=> (cell.muts > 0)
    /\ borrow(cell).panicked <=> (cell.muts > 0)
    /\ (try_borrow_mut(cell).result = "Err") <=> (cell.muts > 0 \/ cell.refs > 0)
    /\ borrow_mut(cell).panicked <=> (cell.muts > 0 \/ cell.refs > 0)
    /\ last.op \in {"try_borrow", "borrow"} =>
         ((last.result = "Err") <=> (last.pre.muts > 0))
    /\ last.op \in {"try_borrow_mut", "borrow_mut"} =>
         ((last.result = "Err") <=> (last.pre.muts > 0 \/ last.pre.refs > 0))
    /\ last.op \in {"borrow", "borrow_mut"} => (last.panicked <=> (last.result = "Err"))
    /\ last.op = "replace" =>
         (last.panicked <=> (last.pre.muts > 0 \/ last.pre.refs > 0))
    /\ last.op \in {"try_borrow", "try_borrow_mut"} => ~last.panicked

C21_Witness ==
    /\ last.op = "try_borrow_mut" /\ last.result = "Err"
    /\ cell.refs = 3
    /\ cell.muts = 0

\* C22: borrow_count is -1 while a RefMut guard is live and otherwise the number
\* of live Ref guards; a failed borrow attempt leaves the cell as it was; and
\* once every guard has been dropped borrow_mut() succeeds.
C22_CounterTracksGuards ==
    /\ cell.borrow_count = (IF cell.muts > 0 THEN -1 ELSE cell.refs)
    /\ (last.op \in {"try_borrow", "try_borrow_mut"} /\ last.result = "Err") =>
         cell = last.pre
    /\ (last.target = "cell" /\ last.panicked) => cell = last.pre
    /\ (cell.refs = 0 /\ cell.muts = 0) =>
         /\ cell.borrow_count = 0
         /\ ~borrow_mut(cell).panicked
         /\ borrow_mut(cell).s.borrow_count = -1

C22_Witness ==
    /\ last.op = "drop_ref"
    /\ last.pre.refs = 1
    /\ cell.refs = 0 /\ cell.muts = 0
    /\ cell.value # 1

(***************************************************************************)
(* Rc0 and Weak0: an allocation is made by Rc0::new and its handles are    *)
(* cloned, downgraded, upgraded and dropped in any order.  In SpecRc the   *)
(* value's destructor leaves the handles alone, so a drop is one step.  In *)
(* SpecRcDtor the drop of the last strong handle is two steps, and between *)
(* them the value's destructor may call upgrade on a weak handle it can    *)
(* reach and keep the result.                                              *)
(***************************************************************************)

\* a call on a handle, its result and the allocation before it
RcCall(op, r) ==
    [op |-> op, result |-> r.result, panicked |-> r.panicked, pre |-> rc,
     target |-> "rc"]

\* let rc = Rc0::new(value);
InitRc ==
    /\ InitVec /\ ctor.fn = "new"
    /\ other = NoBuffer
    /\ cell = Absent
    /\ rc = Rc0_new

\* no drop is in progress, and nothing undefined has happened that would make
\* what follows arbitrary
Idle == ~rc.dropping /\ ~rc.ub /\ ~rc.wrapped

RcClone ==
    /\ rc.rcs > 0 /\ rc.rcs < MaxHandles /\ Idle
    /\ rc' = Rc0_clone(rc)
    /\ last' = RcCall("clone", Ret(rc, None, FALSE))
    /\ UNCHANGED <<vecVars, cell>>

RcDowngrade ==
    /\ rc.rcs > 0 /\ rc.weaks < MaxHandles /\ Idle
    /\ rc' = downgrade(rc)
    /\ last' = RcCall("downgrade", Ret(rc, None, FALSE))
    /\ UNCHANGED <<vecVars, cell>>

RcDrop ==
    /\ rc.rcs > 0 /\ Idle
    /\ rc' = Rc0_drop(rc)
    /\ last' = RcCall("drop", Ret(rc, None, FALSE))
    /\ UNCHANGED <<vecVars, cell>>

WeakClone ==
    /\ rc.weaks > 0 /\ rc.weaks < MaxHandles /\ Idle
    /\ rc' = Weak0_clone(rc)
    /\ last' = RcCall("weak_clone", Ret(rc, None, FALSE))
    /\ UNCHANGED <<vecVars, cell>>

WeakUpgrade ==
    /\ rc.weaks > 0 /\ rc.rcs < MaxHandles /\ Idle
    /\ LET r == upgrade(rc)
       IN  rc' = r.s /\ last' = RcCall("upgrade", r)
    /\ UNCHANGED <<vecVars, cell>>

WeakDrop ==
    /\ rc.weaks > 0 /\ Idle
    /\ rc' = Weak0_drop(rc)
    /\ last' = RcCall("weak_drop", Ret(rc, None, FALSE))
    /\ UNCHANGED <<vecVars, cell>>

NextRc ==
    \/ RcClone
    \/ RcDowngrade
    \/ RcDrop
    \/ WeakClone
    \/ WeakUpgrade
    \/ WeakDrop

SpecRc == InitRc /\ [][NextRc]_vars

\* drop of a strong handle, up to and into the value's destructor
RcDropStart ==
    /\ rc.rcs > 0 /\ Idle
    /\ LET v == Rc0_drop_value(rc)
       IN  rc' = IF v.dropping THEN v ELSE Rc0_drop_counts(v)
    /\ last' = RcCall("drop", Ret(rc, None, FALSE))
    /\ UNCHANGED <<vecVars, cell>>

\* the value's destructor calls upgrade on a weak handle and keeps the result
DtorUpgrade ==
    /\ rc.dropping /\ rc.weaks > 0 /\ rc.rcs < MaxHandles
    /\ LET r == upgrade(rc)
       IN  rc' = r.s /\ last' = RcCall("dtor_upgrade", r)
    /\ UNCHANGED <<vecVars, cell>>

\* the value's destructor returns and the drop goes on
DtorEnd ==
    /\ rc.dropping
    /\ rc' = Rc0_drop_counts(rc)
    /\ last' = RcCall("dtor_end", Ret(rc, None, FALSE))
    /\ UNCHANGED <<vecVars, cell>>

NextRcDtor ==
    \/ RcClone
    \/ RcDowngrade
    \/ RcDropStart
    \/ DtorUpgrade
    \/ DtorEnd
    \/ WeakClone
    \/ WeakUpgrade
    \/ WeakDrop

SpecRcDtor == InitRc /\ [][NextRcDtor]_vars

C30_NoUpgradeOnceDestroying ==
    /\ (rc.valueDrops >= 1 /\ rc.weaks > 0) =>
         /\ strong_count(rc) = 0
         /\ upgrade(rc).result = None
    /\ (last.target = "rc" /\ last.op = "dtor_upgrade") => last.result = None

====
